---- MODULE Spec2Model ----
(***************************************************************************)
(* Model of the file encryption tool of src/main.py: the EncryptionTool    *)
(* class (encrypt_file, decrypt_file) and the four commands encrypt,       *)
(* decrypt, encrypt_recursive and decrypt_recursive.                       *)
(*                                                                         *)
(* File names are sequences of one-character strings, so that the suffix   *)
(* test, the slice and os.path.splitext are computed as Python computes    *)
(* them.  A file's content is a payload wrapped in the keys it was         *)
(* encrypted under (innermost first).  Keys are integers: NoKey stands for *)
(* None or the empty string (both falsy in Python), MalformedKey for a     *)
(* string that is not 32 url-safe base64-encoded bytes, every positive     *)
(* number for a well-formed Fernet key.                                    *)
(*                                                                         *)
(* The walked source tree (SrcDir, SubDir), the two output folders and the *)
(* working directory of the single-file commands are distinct directories, *)
(* and encryption_key.key is none of the files a command is pointed at.    *)
(* A with open(...) block can raise IOError at the open (nothing changes)  *)
(* or, for a file opened with "wb", at the write (the file is truncated).  *)
(***************************************************************************)
EXTENDS Integers, Sequences, FiniteSets, TLC

\* ---------------------------------------------------------------- bounds
\* commands run one after the other
MaxSessions == 2
\* longest file name tried by the single-file commands
MaxNameLen == 3

\* ------------------------------------------------------------------ keys
NoKey == 0
MalformedKey == 0 - 1
PriorKey == 101
ForeignKey == 102

\* Fernet(key) accepts exactly the well-formed keys; anything else raises
\* ValueError (not InvalidToken).
FernetKeyValid(key) == key >= 1

\* EncryptionTool.__init__: key if key else Fernet.generate_key().decode()
ToolKey(key, fresh) == IF key # NoKey THEN key ELSE fresh

\* -------------------------------------------------------------- contents
Plain(b) == [base |-> b, keys |-> <<>>]
Partial == [base |-> "partial", keys |-> <<>>]

\* fernet.encrypt(data): an authenticated token of data under key
FernetEncrypt(key, data) == [data EXCEPT !.keys = Append(@, key)]

\* fernet.decrypt(token) succeeds iff token was produced under the same key
FernetVerifies(key, token) ==
    /\ Len(token.keys) > 0
    /\ token.keys[Len(token.keys)] = key

FernetDecrypt(key, token) ==
    [token EXCEPT !.keys = SubSeq(@, 1, Len(@) - 1)]

\* ----------------------------------------------------------------- names
REX == <<".", "r", "e", "x">>

\* str.endswith
EndsWith(s, suf) ==
    /\ Len(s) >= Len(suf)
    /\ SubSeq(s, Len(s) - Len(suf) + 1, Len(s)) = suf

\* file_name[:-4]
DropLast4(s) == SubSeq(s, 1, Len(s) - 4)

\* index of the last "." of s, 0 when there is none (str.rfind, 1-based)
LastDot(s) ==
    LET D == {i \in 1..Len(s) : s[i] = "."}
    IN  IF D = {} THEN 0 ELSE CHOOSE i \in D : \A j \in D : j <= i

\* os.path.splitext(name)[0]: the extension starts at the last dot, unless
\* only dots precede that dot (leading dots are not an extension).
SplitextRoot(s) ==
    LET d == LastDot(s)
    IN  IF d > 0 /\ \E i \in 1..(d - 1) : s[i] # "."
        THEN SubSeq(s, 1, d - 1)
        ELSE s

\* ------------------------------------------------------------ filesystem
CwdDir == "cwd"
SrcDir == "src"
SubDir == "src/sub"
EncDir == "Encrypted_data"
DecDir == "Decrypted_data"

Path(dir, name) == <<dir, name>>

Exists(files, p) == p \in DOMAIN files

WriteFile(files, p, c) ==
    [q \in (DOMAIN files) \cup {p} |-> IF q = p THEN c ELSE files[q]]

RemoveFile(files, p) == [q \in (DOMAIN files) \ {p} |-> files[q]]

\* Where an I/O error strikes inside one encrypt_file / decrypt_file call:
\* "read" while opening or reading the input, "open" while opening the
\* output (nothing created), "write" after the output was opened with "wb"
\* (the output exists, truncated, possibly with a partial content).
Faults == {"none", "read", "open", "write"}
KeyFaults == {"none", "open", "write"}

\* ------------------------------------------------------- EncryptionTool
\* encrypt_file(file_name, output_file): out is <<>> (None) or <<path>>.
encrypt_file(files, key, p, out, fault) ==
    LET target == IF out # <<>> THEN out[1]
                  ELSE Path(p[1], p[2] \o REX)
    IN  IF ~Exists(files, p)
        THEN [files |-> files, err |-> "FileNotFoundError", out |-> <<>>]
        ELSE IF fault = "read"
        THEN [files |-> files, err |-> "IOError", out |-> <<>>]
        ELSE IF ~FernetKeyValid(key)
        THEN [files |-> files, err |-> "ValueError", out |-> <<>>]
        ELSE IF fault = "open"
        THEN [files |-> files, err |-> "IOError", out |-> <<>>]
        ELSE IF fault = "write"
        THEN [files |-> WriteFile(files, target, Partial),
              err |-> "IOError", out |-> <<target>>]
        ELSE [files |-> WriteFile(files, target,
                                  FernetEncrypt(key, files[p])),
              err |-> "ok", out |-> <<target>>]

\* a decrypt_file that opens its output before it decrypts
decrypt_file_OpenFirst(files, key, p, out, fault) ==
    LET target == IF out # <<>> THEN out[1]
                  ELSE Path(p[1], SplitextRoot(p[2]))
    IN  IF ~Exists(files, p)
        THEN [files |-> files, err |-> "FileNotFoundError", out |-> <<>>]
        ELSE IF fault \in {"read", "open"}
        THEN [files |-> files, err |-> "IOError", out |-> <<>>]
        ELSE IF ~FernetKeyValid(key)
        THEN [files |-> WriteFile(files, target, Partial),
              err |-> "ValueError", out |-> <<target>>]
        ELSE IF ~FernetVerifies(key, files[p])
        THEN [files |-> WriteFile(files, target, Partial),
              err |-> "InvalidToken", out |-> <<target>>]
        ELSE IF fault = "write"
        THEN [files |-> WriteFile(files, target, Partial),
              err |-> "IOError", out |-> <<target>>]
        ELSE [files |-> WriteFile(files, target,
                                  FernetDecrypt(key, files[p])),
              err |-> "ok", out |-> <<target>>]

decrypt_file(files, key, p, out, fault) ==
    LET target == IF out # <<>> THEN out[1]
                  ELSE Path(p[1], SplitextRoot(p[2]))
    IN  IF ~Exists(files, p)
        THEN [files |-> files, err |-> "FileNotFoundError", out |-> <<>>]
        ELSE IF fault = "read"
        THEN [files |-> files, err |-> "IOError", out |-> <<>>]
        ELSE IF ~FernetKeyValid(key)
        THEN [files |-> files, err |-> "ValueError", out |-> <<>>]
        ELSE IF ~FernetVerifies(key, files[p])
        THEN [files |-> files, err |-> "InvalidToken", out |-> <<>>]
        ELSE IF fault = "open"
        THEN [files |-> files, err |-> "IOError", out |-> <<>>]
        ELSE IF fault = "write"
        THEN [files |-> WriteFile(files, target, Partial),
              err |-> "IOError", out |-> <<target>>]
        ELSE [files |-> WriteFile(files, target,
                                  FernetDecrypt(key, files[p])),
              err |-> "ok", out |-> <<target>>]

\* a key write that keeps a key file that is already there
WriteKeyFile_KeepExisting(kf, key, kfault) ==
    IF kfault = "open" THEN [kf |-> kf, err |-> "IOError"]
    ELSE IF kf # <<>> THEN [kf |-> kf, err |-> "ok"]
    ELSE IF kfault = "write" THEN [kf |-> <<NoKey>>, err |-> "IOError"]
    ELSE [kf |-> <<key>>, err |-> "ok"]

\* with open("encryption_key.key", "wb") as key: key.write(tool.key.encode())
\* The key file is <<>> (no file) or <<content>>.
WriteKeyFile(kf, key, kfault) ==
    IF kfault = "open" THEN [kf |-> kf, err |-> "IOError"]
    ELSE IF kfault = "write" THEN [kf |-> <<NoKey>>, err |-> "IOError"]
    ELSE [kf |-> <<key>>, err |-> "ok"]

\* except (FileNotFoundError, KeyError, IOError) as e
EncryptCaught == {"FileNotFoundError", "KeyError", "IOError"}
\* except (FileNotFoundError, KeyError, IOError, InvalidToken) as e
DecryptCaught == {"FileNotFoundError", "KeyError", "IOError", "InvalidToken"}

Outcome(err, caught) ==
    IF err = "ok" THEN "ok" ELSE IF err \in caught THEN "error" ELSE "crash"


\* ------------------------------------------------------- recursive walks
\* a walk that encrypts every file it finds
EncryptEligible_Any(name) == TRUE

\* if not file_name.endswith(".rex")
EncryptEligible(name) == ~EndsWith(name, REX)
\* if file_name.endswith(".rex")
DecryptEligible(name) == EndsWith(name, REX)

\* os.path.join(encrypted_folder, file_name + ".rex")
EncryptedPath(p) == Path(EncDir, p[2] \o REX)
\* os.path.join(decrypted_folder, file_name[:-4])
DecryptedPath(p) == Path(DecDir, DropLast4(p[2]))

\* a loop that catches the exception per file and goes on
LoopContinues_Always(err) == TRUE

\* An exception leaves both for loops; without one the walk goes on.
LoopContinues(err) == err = "ok"

Perms(S) ==
    {s \in [1..Cardinality(S) -> S] :
        \A i, j \in 1..Cardinality(S) : s[i] = s[j] => i = j}

InDir(files, dir) == {p \in DOMAIN files : p[1] = dir}

\* os.walk(directory), top down: the files of the directory in any order,
\* then those of its subdirectory in any order.
WalkOrders(files) ==
    {a \o b : a \in Perms(InDir(files, SrcDir)),
              b \in Perms(InDir(files, SubDir))}

\* ------------------------------------------------------------ the inputs
NameA == <<"a">>
NameMissing == <<"z">>
NameOut == <<"o">>

NoFile == Plain("none")

\* Each slot of the walked tree: the contents it may start with
\* (NoFile: the file does not exist).
TreeSlots ==
    << [path |-> Path(SrcDir, NameA), opts |-> {NoFile, Plain("p1")}],
       [path |-> Path(SubDir, NameA), opts |-> {NoFile, Plain("p2")}],
       [path |-> Path(SrcDir, NameA \o REX),
        opts |-> {NoFile, FernetEncrypt(PriorKey, Plain("p1"))}],
       [path |-> Path(SubDir, NameA \o REX),
        opts |-> {NoFile, FernetEncrypt(PriorKey, Plain("p2")), Plain("p2")}] >>

TreePaths == {TreeSlots[i].path : i \in DOMAIN TreeSlots}

InitialTrees ==
    {f \in [TreePaths -> UNION {TreeSlots[i].opts : i \in DOMAIN TreeSlots}] :
        \A i \in DOMAIN TreeSlots : f[TreeSlots[i].path] \in TreeSlots[i].opts}

Present(f) == [p \in {q \in DOMAIN f : f[q] # NoFile} |-> f[p]]

\* the names of at most MaxNameLen characters over "a" and "."; "." and
\* ".." are directories, never files
FileNames ==
    (UNION {[1..n -> {"a", "."}] : n \in 1..MaxNameLen})
        \ {<<".">>, <<".", ".">>}

Outputs == {<<>>, <<Path(CwdDir, NameOut)>>}

\* the files a user may name to decrypt: a marked file of the working
\* directory, the file an explicit --output wrote, or a file that is not there
DecryptInputs(files) ==
    {p[2] : p \in {q \in InDir(files, CwdDir) :
                       EndsWith(q[2], REX) \/ q[2] = NameOut}}
        \cup {NameMissing}

\* the keys a user may hand to decrypt --key: nothing, a malformed string,
\* a generated key, a well-formed key no file here was encrypted under
FileKeys(next) == {NoKey, MalformedKey, ForeignKey} \cup 1..(next - 1)

\* the keys a user may hand to decrypt-recursive --key: nothing, a malformed
\* string, the key of the tree's .rex files, a well-formed key that is not
\* theirs (as every generated key is)
TreeKeys == {NoKey, MalformedKey, PriorKey, ForeignKey}

\* ----------------------------------------------------------------- state
\* names     the file names the user passes to encrypt --file
\* fs        the files: path -> content
\* keyFile   encryption_key.key: <<>> or <<content>>
\* nextKey   the key the next Fernet.generate_key() returns
\* sessions  commands run so far
\* mode      "idle", or the recursive command whose loops are running
\* toolKey   tool.key of the current command
\* todo      what is left of the walk
\* cmd, args the command run last and its arguments
\* visited   the files encrypt_file / decrypt_file was called on, in order
\* done      those of them whose call returned
\* skipped   the files the walk passed over
\* failed    <<>> or <<the file whose call raised>>
\* lastErr   the exception that ended the command, "ok", or "none"
\* outcome   "ok", "error" (caught and echoed), "crash" (uncaught), "none"
\* keyWrites how often the command opened the key file for writing
\* lastOut   <<>> or <<the output path the last call opened for writing>>
\* fsCall    fs when the last encrypt_file / decrypt_file call began
\* fs0, keyFile0  fs and keyFile when the command began
\* lastOkKey <<>> or <<the key of the last encrypt command that succeeded>>
VARIABLES names, fs, keyFile, nextKey, sessions, mode, toolKey, todo,
          cmd, args, visited, done, skipped, failed, lastErr, outcome,
          keyWrites, lastOut, fsCall, fs0, keyFile0, lastOkKey

vars == <<names, fs, keyFile, nextKey, sessions, mode, toolKey, todo,
          cmd, args, visited, done, skipped, failed, lastErr, outcome,
          keyWrites, lastOut, fsCall, fs0, keyFile0, lastOkKey>>

NoArgs == [file |-> <<>>, out |-> <<>>, key |-> NoKey]

\* what every specification starts from, whatever the files are
InitRest ==
    /\ keyFile = <<>>
    /\ nextKey = 1
    /\ sessions = 0
    /\ mode = "idle"
    /\ toolKey = NoKey
    /\ todo = <<>>
    /\ cmd = "none"
    /\ args = NoArgs
    /\ visited = <<>>
    /\ done = <<>>
    /\ skipped = <<>>
    /\ failed = <<>>
    /\ lastErr = "none"
    /\ outcome = "none"
    /\ keyWrites = 0
    /\ lastOut = <<>>
    /\ fsCall = fs
    /\ fs0 = fs
    /\ keyFile0 = keyFile
    /\ lastOkKey = <<>>

\* a tree to walk, and one file "a" in the working directory
Init ==
    /\ names = {NameA, NameMissing}
    /\ fs \in {WriteFile(Present(f), Path(CwdDir, NameA), Plain("p1")) :
                  f \in InitialTrees}
    /\ InitRest

\* no tree, and one file of any name in the working directory
InitFile ==
    /\ \E n \in FileNames, b \in {"p1", "p2"} :
        /\ names = {n, NameMissing}
        /\ fs = WriteFile(<< >>, Path(CwdDir, n), Plain(b))
    /\ InitRest

CanStart == mode = "idle" /\ sessions < MaxSessions

\* What every command sets when it starts.
Begin(name, a) ==
    /\ names' = names
    /\ sessions' = sessions + 1
    /\ cmd' = name
    /\ args' = a
    /\ fs0' = fs
    /\ keyFile0' = keyFile
    /\ skipped' = <<>>

KeyOpened(kfault) == IF kfault = "open" THEN 0 ELSE 1

\* encrypt --file file_name [--output output_file]
Encrypt ==
    /\ CanStart
    /\ \E name \in names, out \in Outputs,
          fault \in Faults, kfault \in KeyFaults :
        LET p == Path(CwdDir, name)
            key == ToolKey(NoKey, nextKey)
            r == encrypt_file(fs, key, p, out, fault)
            k == WriteKeyFile(keyFile, key, kfault)
            err == IF r.err = "ok" THEN k.err ELSE r.err
        IN  /\ Begin("encrypt", [file |-> <<p>>, out |-> out, key |-> NoKey])
            /\ nextKey' = nextKey + 1
            /\ toolKey' = key
            /\ fs' = r.files
            /\ fsCall' = fs
            /\ lastOut' = r.out
            /\ visited' = <<p>>
            /\ done' = IF r.err = "ok" THEN <<p>> ELSE <<>>
            /\ failed' = IF r.err = "ok" THEN <<>> ELSE <<p>>
            /\ keyFile' = IF r.err = "ok" THEN k.kf ELSE keyFile
            /\ keyWrites' = IF r.err = "ok" THEN KeyOpened(kfault) ELSE 0
            /\ lastErr' = err
            /\ outcome' = Outcome(err, EncryptCaught)
            /\ lastOkKey' = IF err = "ok" THEN <<key>> ELSE lastOkKey
            /\ todo' = <<>>
            /\ UNCHANGED mode

\* decrypt --file file_name [--output output_file] --key key
Decrypt ==
    /\ CanStart
    /\ \E name \in DecryptInputs(fs), out \in Outputs,
          key \in FileKeys(nextKey), fault \in Faults :
        LET p == Path(CwdDir, name)
            r == decrypt_file(fs, ToolKey(key, nextKey), p, out, fault)
        IN  /\ Begin("decrypt", [file |-> <<p>>, out |-> out, key |-> key])
            /\ fsCall' = fs
            /\ IF key = NoKey
               THEN \* "Error: Decryption key is required", return
                    /\ fs' = fs
                    /\ lastOut' = <<>>
                    /\ visited' = <<>>
                    /\ done' = <<>>
                    /\ failed' = <<>>
                    /\ lastErr' = "none"
                    /\ outcome' = "error"
                    /\ toolKey' = NoKey
               ELSE /\ fs' = r.files
                    /\ lastOut' = r.out
                    /\ visited' = <<p>>
                    /\ done' = IF r.err = "ok" THEN <<p>> ELSE <<>>
                    /\ failed' = IF r.err = "ok" THEN <<>> ELSE <<p>>
                    /\ lastErr' = r.err
                    /\ outcome' = Outcome(r.err, DecryptCaught)
                    /\ toolKey' = key
            /\ keyWrites' = 0
            /\ todo' = <<>>
            /\ UNCHANGED <<keyFile, nextKey, mode, lastOkKey>>

\* encrypt-recursive directory: the tool, the output folder, the walk
EncryptRecursiveStart ==
    /\ CanStart
    /\ \E order \in WalkOrders(fs), mk \in {"none", "fail"} :
        /\ Begin("encrypt_recursive", NoArgs)
        /\ toolKey' = ToolKey(NoKey, nextKey)
        /\ nextKey' = nextKey + 1
        /\ visited' = <<>>
        /\ done' = <<>>
        /\ failed' = <<>>
        /\ keyWrites' = 0
        /\ lastOut' = <<>>
        /\ fsCall' = fs
        /\ IF mk = "fail"
           THEN \* os.makedirs raises OSError
                /\ mode' = "idle"
                /\ todo' = <<>>
                /\ lastErr' = "IOError"
                /\ outcome' = Outcome("IOError", EncryptCaught)
           ELSE /\ mode' = "enc_rec"
                /\ todo' = order
                /\ lastErr' = "none"
                /\ outcome' = "none"
        /\ UNCHANGED <<fs, keyFile, lastOkKey>>

\* one iteration of the loops of encrypt_recursive
EncryptRecursiveStep ==
    /\ mode = "enc_rec"
    /\ todo # <<>>
    /\ LET p == Head(todo)
       IN  IF ~EncryptEligible(p[2])
           THEN /\ todo' = Tail(todo)
                /\ skipped' = Append(skipped, p)
                /\ UNCHANGED <<fs, mode, visited, done, failed, lastErr,
                               outcome, lastOut, fsCall>>
           ELSE \E fault \in Faults :
                LET r == encrypt_file(fs, toolKey, p, <<EncryptedPath(p)>>,
                                      fault)
                IN  /\ fs' = r.files
                    /\ fsCall' = fs
                    /\ lastOut' = r.out
                    /\ todo' = Tail(todo)
                    /\ visited' = Append(visited, p)
                    /\ done' = IF r.err = "ok" THEN Append(done, p) ELSE done
                    /\ failed' = IF r.err = "ok" THEN failed ELSE <<p>>
                    /\ lastErr' = IF r.err = "ok" THEN lastErr ELSE r.err
                    /\ mode' = IF LoopContinues(r.err) THEN mode ELSE "idle"
                    /\ outcome' = IF LoopContinues(r.err) THEN outcome
                                  ELSE Outcome(r.err, EncryptCaught)
                    /\ UNCHANGED skipped
    /\ UNCHANGED <<names, keyFile, nextKey, sessions, toolKey, cmd, args,
                   keyWrites, fs0, keyFile0, lastOkKey>>

\* an encrypt_recursive that persists the key before its loops are over
EncryptRecursiveFinish_Early ==
    /\ mode = "enc_rec"
    /\ \E kfault \in KeyFaults :
        LET k == WriteKeyFile(keyFile, toolKey, kfault)
        IN  /\ keyFile' = k.kf
            /\ keyWrites' = keyWrites + KeyOpened(kfault)
            /\ lastErr' = k.err
            /\ outcome' = Outcome(k.err, EncryptCaught)
            /\ lastOkKey' = IF k.err = "ok" THEN <<toolKey>> ELSE lastOkKey
    /\ mode' = "idle"
    /\ UNCHANGED <<names, fs, nextKey, sessions, toolKey, todo, cmd, args,
                   visited, done, skipped, failed, lastOut, fsCall, fs0,
                   keyFile0>>

\* after the loops of encrypt_recursive: the key file
EncryptRecursiveFinish ==
    /\ mode = "enc_rec"
    /\ todo = <<>>
    /\ \E kfault \in KeyFaults :
        LET k == WriteKeyFile(keyFile, toolKey, kfault)
        IN  /\ keyFile' = k.kf
            /\ keyWrites' = keyWrites + KeyOpened(kfault)
            /\ lastErr' = k.err
            /\ outcome' = Outcome(k.err, EncryptCaught)
            /\ lastOkKey' = IF k.err = "ok" THEN <<toolKey>> ELSE lastOkKey
    /\ mode' = "idle"
    /\ UNCHANGED <<names, fs, nextKey, sessions, toolKey, todo, cmd, args,
                   visited, done, skipped, failed, lastOut, fsCall, fs0,
                   keyFile0>>

\* decrypt-recursive directory --key key
DecryptRecursiveStart ==
    /\ CanStart
    /\ \E order \in WalkOrders(fs), mk \in {"none", "fail"},
          key \in TreeKeys :
        /\ Begin("decrypt_recursive",
                 [file |-> <<>>, out |-> <<>>, key |-> key])
        /\ toolKey' = ToolKey(key, nextKey)
        /\ nextKey' = IF key = NoKey THEN nextKey + 1 ELSE nextKey
        /\ visited' = <<>>
        /\ done' = <<>>
        /\ failed' = <<>>
        /\ keyWrites' = 0
        /\ lastOut' = <<>>
        /\ fsCall' = fs
        /\ IF mk = "fail"
           THEN \* os.makedirs raises OSError
                /\ mode' = "idle"
                /\ todo' = <<>>
                /\ lastErr' = "IOError"
                /\ outcome' = Outcome("IOError", DecryptCaught)
           ELSE /\ mode' = "dec_rec"
                /\ todo' = order
                /\ lastErr' = "none"
                /\ outcome' = "none"
        /\ UNCHANGED <<fs, keyFile, lastOkKey>>

\* one iteration of the loops of decrypt_recursive
DecryptRecursiveStep ==
    /\ mode = "dec_rec"
    /\ todo # <<>>
    /\ LET p == Head(todo)
       IN  IF ~DecryptEligible(p[2])
           THEN /\ todo' = Tail(todo)
                /\ skipped' = Append(skipped, p)
                /\ UNCHANGED <<fs, mode, visited, done, failed, lastErr,
                               outcome, lastOut, fsCall>>
           ELSE \E fault \in Faults :
                LET r == decrypt_file(fs, toolKey, p, <<DecryptedPath(p)>>,
                                      fault)
                IN  /\ fs' = r.files
                    /\ fsCall' = fs
                    /\ lastOut' = r.out
                    /\ todo' = Tail(todo)
                    /\ visited' = Append(visited, p)
                    /\ done' = IF r.err = "ok" THEN Append(done, p) ELSE done
                    /\ failed' = IF r.err = "ok" THEN failed ELSE <<p>>
                    /\ lastErr' = IF r.err = "ok" THEN lastErr ELSE r.err
                    /\ mode' = IF LoopContinues(r.err) THEN mode ELSE "idle"
                    /\ outcome' = IF LoopContinues(r.err) THEN outcome
                                  ELSE Outcome(r.err, DecryptCaught)
                    /\ UNCHANGED skipped
    /\ UNCHANGED <<names, keyFile, nextKey, sessions, toolKey, cmd, args,
                   keyWrites, fs0, keyFile0, lastOkKey>>

\* a decrypt_recursive that ends as encrypt_recursive does, writing the key
DecryptRecursiveFinish_WritesKey ==
    /\ mode = "dec_rec"
    /\ todo = <<>>
    /\ mode' = "idle"
    /\ outcome' = "ok"
    /\ lastErr' = "ok"
    /\ keyFile' = <<toolKey>>
    /\ UNCHANGED <<names, fs, nextKey, sessions, toolKey, todo, cmd,
                   args, visited, done, skipped, failed, keyWrites, lastOut,
                   fsCall, fs0, keyFile0, lastOkKey>>

\* after the loops of decrypt_recursive: only the message
DecryptRecursiveFinish ==
    /\ mode = "dec_rec"
    /\ todo = <<>>
    /\ mode' = "idle"
    /\ outcome' = "ok"
    /\ lastErr' = "ok"
    /\ keyFile' = keyFile
    /\ UNCHANGED <<names, fs, nextKey, sessions, toolKey, todo, cmd,
                   args, visited, done, skipped, failed, keyWrites, lastOut,
                   fsCall, fs0, keyFile0, lastOkKey>>

\* Another process removes the file the walk is about to hand to the tool
\* (the case the os.path.exists test of encrypt_file / decrypt_file is for).
FileVanishes ==
    /\ mode \in {"enc_rec", "dec_rec"}
    /\ todo # <<>>
    /\ Exists(fs, Head(todo))
    /\ IF mode = "enc_rec" THEN EncryptEligible(Head(todo)[2])
                           ELSE DecryptEligible(Head(todo)[2])
    /\ fs' = RemoveFile(fs, Head(todo))
    /\ UNCHANGED <<names, keyFile, nextKey, sessions, mode, toolKey, todo,
                   cmd, args, visited, done, skipped, failed, lastErr,
                   outcome, keyWrites, lastOut, fsCall, fs0, keyFile0,
                   lastOkKey>>

Next ==
    \/ Encrypt
    \/ Decrypt
    \/ EncryptRecursiveStart
    \/ EncryptRecursiveStep
    \/ EncryptRecursiveFinish
    \/ DecryptRecursiveStart
    \/ DecryptRecursiveStep
    \/ DecryptRecursiveFinish
    \/ FileVanishes

\* the four commands over a tree and a working directory
Spec == Init /\ [][Next]_vars

NextFile ==
    \/ Encrypt
    \/ Decrypt

\* the two single-file commands over file names of every shape
SpecFile == InitFile /\ [][NextFile]_vars

\* ---------------------------------------------------------------- claims
RecCmds == {"encrypt_recursive", "decrypt_recursive"}
EncCmds == {"encrypt", "encrypt_recursive"}
DecCmds == {"decrypt", "decrypt_recursive"}
OutDirs == {EncDir, DecDir}
TreeDirs == {SrcDir, SubDir}

Range(q) == {q[i] : i \in DOMAIN q}

\* the files of the two output folders
OutputsOf(files) ==
    [p \in {q \in DOMAIN files : q[1] \in OutDirs} |-> files[p]]

\* what the running batch is to make of the tree file p: where, and what
BatchOut(p) ==
    IF cmd = "encrypt_recursive"
    THEN <<EncDir, p[2] \o <<".", "r", "e", "x">> >>
    ELSE <<DecDir, SubSeq(p[2], 1, Len(p[2]) - 4)>>

BatchContent(p) ==
    IF cmd = "encrypt_recursive"
    THEN [base |-> fs0[p].base, keys |-> fs0[p].keys \o <<toolKey>>]
    ELSE [base |-> fs0[p].base,
          keys |-> SubSeq(fs0[p].keys, 1, Len(fs0[p].keys) - 1)]

Marked(p) == Len(p[2]) >= 4 /\ SubSeq(p[2], Len(p[2]) - 3, Len(p[2])) = REX

\* the tree files the batch has to process, as they were when it began
EligibleAtStart ==
    {p \in DOMAIN fs0 :
        /\ p[1] \in TreeDirs
        /\ IF cmd = "encrypt_recursive" THEN ~Marked(p) ELSE Marked(p)}

\* the output folders as the files of done, processed in that order and
\* nothing else, leave them
ExpectedOutputs ==
    LET W(q) == {i \in DOMAIN done : BatchOut(done[i]) = q}
        Last(q) == CHOOSE i \in W(q) : \A j \in W(q) : j <= i
        old == OutputsOf(fs0)
    IN  [q \in (DOMAIN old) \cup {BatchOut(done[i]) : i \in DOMAIN done} |->
            IF W(q) # {} THEN BatchContent(done[Last(q)]) ELSE old[q]]

\* C1 as claimed: once a file of a recursive batch fails, whatever the
\* failure, the batch is over, the tool was called on no file after the
\* failing one, the failing file left no output, and the output folders hold
\* exactly what the files processed before it produced.
C1_AbortNoOutput ==
    (cmd \in RecCmds /\ failed # <<>>) =>
        /\ mode = "idle"
        /\ visited = Append(done, failed[1])
        /\ OutputsOf(fs) = ExpectedOutputs

\* C1 amended: as C1, except that an I/O failure that strikes while the
\* failing file's output is being written (after it was opened) leaves that
\* output path truncated, whatever it held; every other failure leaves no
\* output.
C1_BatchAbort ==
    (cmd \in RecCmds /\ failed # <<>>) =>
        /\ mode = "idle"
        /\ visited = Append(done, failed[1])
        /\ \/ lastOut = <<>> /\ OutputsOf(fs) = ExpectedOutputs
           \/ /\ lastErr = "IOError"
              /\ lastOut = <<BatchOut(failed[1])>>
              /\ OutputsOf(fs) =
                     WriteFile(ExpectedOutputs, BatchOut(failed[1]), Partial)

\* C1 witness: a decrypt batch whose second file failed authentication after the first
\* was decrypted: the first output is on disk
C1_Witness ==
    /\ cmd = "decrypt_recursive"
    /\ lastErr = "InvalidToken"
    /\ Len(done) = 1
    /\ failed = <<Path(SubDir, NameA \o REX)>>
    /\ Exists(fs, Path(DecDir, NameA))

\* C2: an encrypt session opens the key file for writing at most once, never
\* while its loops run, only when every file of the session was encrypted
\* and written; a successful session wrote its key, a session in which a
\* file failed did not touch the key file.
C2_KeyWrittenOnceAtEnd ==
    cmd \in EncCmds =>
        /\ keyWrites <= 1
        /\ mode = "enc_rec" => keyWrites = 0 /\ keyFile = keyFile0
        /\ keyWrites = 1 =>
              /\ failed = <<>>
              /\ todo = <<>>
              /\ cmd = "encrypt" => done = args.file
              /\ cmd = "encrypt_recursive" => EligibleAtStart \subseteq Range(done)
        /\ outcome = "ok" => keyWrites = 1 /\ keyFile = <<toolKey>>
        /\ failed # <<>> => keyWrites = 0 /\ keyFile = keyFile0

\* C2 witness: a recursive encrypt of two files that succeeded and wrote its key
C2_Witness ==
    /\ cmd = "encrypt_recursive"
    /\ outcome = "ok"
    /\ Len(done) = 2
    /\ keyWrites = 1
    /\ keyFile = <<toolKey>>

\* C3 as claimed: no command ends in an uncaught exception; every failure
\* of a file is caught at the command and echoed.
C3_NoCrash == outcome # "crash"

\* C4: encrypt_recursive calls the tool on no marked file, decrypt_recursive
\* on no unmarked file; a skipped file is never the failing file, and every
\* output the batch created or changed is the output of a file it called the
\* tool on.
C4_Eligibility ==
    cmd \in RecCmds =>
        /\ \A i \in DOMAIN visited :
              IF cmd = "encrypt_recursive" THEN ~Marked(visited[i])
                                           ELSE Marked(visited[i])
        /\ \A i \in DOMAIN skipped :
              /\ IF cmd = "encrypt_recursive" THEN Marked(skipped[i])
                                              ELSE ~Marked(skipped[i])
              /\ failed # <<skipped[i]>>
              /\ skipped[i] \notin Range(visited)
        /\ \A q \in DOMAIN OutputsOf(fs) :
              (q \notin DOMAIN fs0 \/ fs[q] # fs0[q]) =>
                  \E i \in DOMAIN visited : q = BatchOut(visited[i])

\* C4 witness: a recursive encrypt that skipped a marked file and encrypted another
C4_Witness ==
    /\ cmd = "encrypt_recursive"
    /\ outcome = "ok"
    /\ Len(skipped) >= 1
    /\ Len(done) >= 1

\* C5 as claimed: after a recursive command that succeeded, every eligible
\* file of the tree has its own output (its name with the marker added or
\* removed, its own bytes transformed) in the output folder, and the folder
\* received nothing else.
C5_EveryFileItsOutput ==
    (cmd \in RecCmds /\ mode = "idle" /\ outcome = "ok") =>
        /\ \A p \in EligibleAtStart :
              /\ Exists(fs, BatchOut(p))
              /\ fs[BatchOut(p)] = BatchContent(p)
        /\ \A q \in DOMAIN OutputsOf(fs) :
              \/ q \in DOMAIN fs0 /\ fs[q] = fs0[q]
              \/ \E p \in EligibleAtStart : q = BatchOut(p)

\* C6 as claimed: encrypt with no --output writes the token of the file to
\* its name plus ".rex"; decrypt of that file with the same key and no
\* --output writes the payload back to the original name.
C6_RoundTrip ==
    /\ (cmd = "encrypt" /\ done # <<>> /\ args.out = <<>>) =>
          /\ lastOut = <<Path(CwdDir, args.file[1][2] \o REX)>>
          /\ fs[lastOut[1]] =
                 [base |-> fs0[args.file[1]].base,
                  keys |-> fs0[args.file[1]].keys \o <<toolKey>>]
    /\ \A n \in names, b \in {"p1", "p2"} :
          ( /\ cmd = "decrypt"
            /\ outcome = "ok"
            /\ args.out = <<>>
            /\ args.file = <<Path(CwdDir, n \o REX)>>
            /\ fs0[args.file[1]] = [base |-> b, keys |-> <<toolKey>>] ) =>
              /\ lastOut = <<Path(CwdDir, n)>>
              /\ fs[Path(CwdDir, n)] = Plain(b)

\* C7 as claimed: the key file changes only in an encrypt session that
\* completed successfully.
C7_KeyFileOnlyOnSuccess ==
    keyFile # keyFile0 =>
        cmd \in EncCmds /\ mode = "idle" /\ outcome = "ok"

\* C7 amended: decrypt and decrypt_recursive leave the key file unchanged in
\* every outcome, and so does an encrypt session in which a file fails or
\* whose output folder cannot be made; an encrypt session changes the key
\* file only after all its files were processed, to its own key, or, when
\* the write of the key file itself fails after the file was opened, to a
\* truncated file.
C7_KeyFileFrame ==
    /\ cmd \in DecCmds => keyFile = keyFile0
    /\ failed # <<>> => keyFile = keyFile0
    /\ keyFile # keyFile0 =>
          /\ cmd \in EncCmds
          /\ mode = "idle"
          /\ todo = <<>>
          /\ \/ outcome = "ok" /\ keyFile = <<toolKey>>
             \/ outcome = "error" /\ lastErr = "IOError" /\ keyFile = <<NoKey>>

\* C7 witness: a recursive decrypt that succeeded while a key file was there
C7_Witness ==
    /\ cmd = "decrypt_recursive"
    /\ outcome = "ok"
    /\ done # <<>>
    /\ keyFile0 # <<>>
    /\ keyFile = keyFile0

\* C8 as claimed: a decrypt that fails on the key or the token fails with
\* KeyError (InvalidKey) when the key is malformed and with InvalidToken
\* (AuthenticationFailure) when the key is well formed.
C8_KeyFailureClasses ==
    (cmd \in DecCmds /\ failed # <<>>
        /\ lastErr \notin {"FileNotFoundError", "IOError"}) =>
        IF toolKey >= 1 THEN lastErr = "InvalidToken"
                        ELSE lastErr = "KeyError"

\* C9: a call of encrypt_file or decrypt_file that fails because the input
\* is missing, the key is unusable or the token does not verify has opened
\* no output and left every file as it was when the call began.
C9_FailureWritesNothing ==
    (failed # <<>> /\ lastErr \in {"FileNotFoundError", "ValueError",
                                   "KeyError", "InvalidToken"}) =>
        /\ lastOut = <<>>
        /\ fs = fsCall

\* C9 witness: a decrypt of a.rex that failed authentication while the file a, its
\* default output, was there
C9_Witness ==
    /\ cmd = "decrypt"
    /\ lastErr = "InvalidToken"
    /\ args.file = <<Path(CwdDir, NameA \o REX)>>
    /\ args.out = <<>>
    /\ Exists(fs, Path(CwdDir, NameA))
    /\ fs[Path(CwdDir, NameA)] = Plain("p1")

\* C10 as claimed: the key file always holds exactly the key of the most
\* recent encrypt session that completed successfully.
C10_KeyFileIsLastKey == keyFile = lastOkKey

\* C10 amended: every encrypt session that completes successfully, a
\* recursive one without eligible files included, leaves its own fresh key
\* in the key file, a key under which no file that was there before can be
\* decrypted; the key file holds the key of the most recent such session, or,
\* once the write of the key file has failed after the file was opened, a
\* truncated file that holds no key.
C10_KeyFileLastKeyOrTruncated ==
    /\ keyFile \in {lastOkKey, <<NoKey>>}
    /\ (cmd \in EncCmds /\ mode = "idle" /\ outcome = "ok") =>
          /\ keyFile = <<toolKey>>
          /\ lastOkKey = <<toolKey>>
          /\ \A p \in DOMAIN fs0 :
                ~(Len(fs0[p].keys) > 0
                    /\ fs0[p].keys[Len(fs0[p].keys)] = keyFile[1])

\* C10 witness: a second successful encrypt session: its key replaced the first one's,
\* whose output is still there
C10_Witness ==
    /\ sessions = 2
    /\ cmd \in EncCmds
    /\ outcome = "ok"
    /\ keyFile0 = <<1>>
    /\ keyFile = <<2>>
    /\ \E p \in DOMAIN fs : fs[p].keys = <<1>>

====
